---- MODULE Spec2Model ----
(***************************************************************************)
(* Model of the Angle / Azimuth value types of geotools (src/angle.py).    *)
(*                                                                         *)
(* Floating-point numbers are modelled in fixed point.  A radian-valued    *)
(* float is an integer count of units of pi/PI radians (30 arc-seconds),   *)
(* or one of the IEEE markers NaN, +Inf, -Inf.  Degree-valued floats are   *)
(* counted in units of 1/DegOne degree.                                    *)
(***************************************************************************)
EXTENDS Integers, Sequences, FiniteSets, TLC

(* ------------------------------------------------------------------ *)
(* Fixed-point scales                                                  *)
(* ------------------------------------------------------------------ *)

\* np.pi, in units: one unit is 30 arc-seconds
PI == 21600

\* 2.0 * np.pi
TwoPI == 2 * PI

\* the float 1.0 as a radian-valued number (1 rad = PI/pi units, pi ~ 355/113)
RadOne == (PI * 113) \div 355

\* the float 1.0 as a degree-valued number (degrees are counted in units of
\* 15 arc-seconds, twice as fine as the radian unit)
DegOne == (2 * PI) \div 180

(* ------------------------------------------------------------------ *)
(* Floats                                                              *)
(* ------------------------------------------------------------------ *)

Fin(n) == [k |-> "fin", v |-> n]

NaN == [k |-> "nan", v |-> 0]

Inf(s) == [k |-> "inf", v |-> s]

IsFin(x) == x.k = "fin"

\* np.isinf
isinf(x) == x.k = "inf"

\* np.isfinite
isfinite(x) == x.k = "fin"

\* np.sign on a finite number
Sign(n) == IF n > 0 THEN 1 ELSE IF n < 0 THEN -1 ELSE 0

Abs(n) == IF n < 0 THEN -n ELSE n

\* floor(a / b) for b # 0
Quot(a, b) == IF b > 0 THEN a \div b ELSE (-a) \div (-b)

\* x + y
FAdd(x, y) ==
    IF IsFin(x) /\ IsFin(y) THEN Fin(x.v + y.v)
    ELSE IF x.k = "inf" /\ y.k = "inf" /\ x.v # y.v THEN NaN
    ELSE IF x.k = "nan" \/ y.k = "nan" THEN NaN
    ELSE IF x.k = "inf" THEN x ELSE y

\* -x
FNeg(x) == IF x.k = "nan" THEN NaN ELSE [k |-> x.k, v |-> -x.v]

\* x - y
FSub(x, y) == FAdd(x, FNeg(y))

\* np.abs
FAbs(x) == IF x.k = "nan" THEN NaN ELSE [k |-> x.k, v |-> Abs(x.v)]

\* x * y of two radian-valued floats (stored operands are never infinite)
FMul(x, y) ==
    IF IsFin(x) /\ IsFin(y) THEN Fin((x.v * y.v) \div RadOne) ELSE NaN

\* a division that gives zero where the divisor is zero
FDiv_zero(x, y) ==
    IF ~(IsFin(x) /\ IsFin(y)) THEN NaN
    ELSE IF y.v = 0 THEN Fin(0)
    ELSE Fin(Quot(x.v * RadOne, y.v))

\* x / y under numpy's float64 rules: division by zero gives Inf or NaN
FDiv(x, y) ==
    IF ~(IsFin(x) /\ IsFin(y)) THEN NaN
    ELSE IF y.v = 0 THEN (IF x.v = 0 THEN NaN ELSE Inf(Sign(x.v)))
    ELSE Fin(Quot(x.v * RadOne, y.v))

\* x // y under numpy's float64 rules
FFloorDiv(x, y) ==
    IF ~(IsFin(x) /\ IsFin(y)) THEN NaN
    ELSE IF y.v = 0 THEN (IF x.v = 0 THEN NaN ELSE Inf(Sign(x.v)))
    ELSE Fin(Quot(x.v, y.v) * RadOne)

\* np.remainder(x, y): the result takes the sign of the divisor
remainder(x, y) ==
    IF ~(IsFin(x) /\ IsFin(y)) THEN NaN
    ELSE IF y.v = 0 THEN NaN
    ELSE Fin(x.v - Quot(x.v, y.v) * y.v)

\* the exponents for which the model computes np.power exactly
PowDefined(x, y) ==
    \/ ~IsFin(x)
    \/ ~IsFin(y)
    \/ x.v <= 0
    \/ x.v = RadOne
    \/ y.v \in {-RadOne, 0, RadOne, 2 * RadOne}

\* np.power(x, y), on the operands PowDefined admits
power(x, y) ==
    IF IsFin(y) /\ y.v = 0 THEN Fin(RadOne)
    ELSE IF IsFin(x) /\ x.v = RadOne THEN Fin(RadOne)
    ELSE IF ~(IsFin(x) /\ IsFin(y)) THEN NaN
    ELSE IF x.v = 0 THEN (IF y.v > 0 THEN Fin(0) ELSE Inf(1))
    ELSE IF y.v = RadOne THEN x
    ELSE IF y.v = 2 * RadOne THEN Fin((x.v * x.v) \div RadOne)
    ELSE IF y.v = -RadOne THEN Fin(Quot(RadOne * RadOne, x.v))
    ELSE NaN

\* x > y on floats: every comparison with NaN is false
FGt(x, y) == IsFin(x) /\ IsFin(y) /\ x.v > y.v

FGe(x, y) == IsFin(x) /\ IsFin(y) /\ x.v >= y.v

FLt(x, y) == IsFin(x) /\ IsFin(y) /\ x.v < y.v

\* a comparison <= that leaves out equality
FLe_strict(x, y) == IsFin(x) /\ IsFin(y) /\ x.v < y.v

FLe(x, y) == IsFin(x) /\ IsFin(y) /\ x.v <= y.v

\* np.isclose(x, y): rtol * |y| + atol stays below one unit for every stored
\* value, so two fixed-point numbers are close exactly when they are equal
isclose(x, y) == IsFin(x) /\ IsFin(y) /\ x.v = y.v

(* ------------------------------------------------------------------ *)
(* Conversion kernel                                                   *)
(* ------------------------------------------------------------------ *)

rad2rad(angle) == angle

\* np.radians: angle * pi / 180, angle in units of 1/DegOne degree
deg2rad(angle) == (angle * (PI \div 180)) \div DegOne

\* angle * pi / 200, angle in whole gons
gon2rad(angle) == (angle * PI) \div 200

\* angle * pi / 3200, angle in whole mils
mil2rad(angle) == (angle * PI) \div 3200

\* sign(d) * (|d| + m/60 + s/3600) * pi / 180, d, m, s whole numbers
dms2rad(dms) ==
    LET d == dms[1]
        m == dms[2]
        s == dms[3]
    IN  Sign(d) * (((Abs(d) * 3600 + m * 60 + s) * (PI \div 180)) \div 3600)

dm2rad(dm) == dms2rad(<<dm[1], dm[2], 0>>)

\* np.degrees: value * 180 / pi, in units of 1/DegOne degree
degrees(x) == IF IsFin(x) THEN Fin((x.v * DegOne) \div (PI \div 180)) ELSE NaN

\* the dispatch dictionary of the constructor
Convert(val, format) ==
    CASE format = "rad" -> rad2rad(val[1])
      [] format = "deg" -> deg2rad(val[1])
      [] format = "gon" -> gon2rad(val[1])
      [] format = "mil" -> mil2rad(val[1])
      [] format = "dms" -> dms2rad(val)
      [] format = "dm"  -> dm2rad(val)

(* ------------------------------------------------------------------ *)
(* Domain constraints and constructors, on the stored value            *)
(* ------------------------------------------------------------------ *)

\* np.isscalar(self.__val): a single float, not an array of floats
isscalar(val) == val.k # "arr"

\* an array of floats as a stored value
Array(xs) == [k |-> "arr", v |-> xs]

\* constrain360 with a remainder that takes the sign of the dividend (fmod)
constrain360_fmod(val) ==
    IF IsFin(val)
    THEN Fin(Sign(val.v) * (Abs(val.v) - (Abs(val.v) \div TwoPI) * TwoPI))
    ELSE NaN

\* Angle.constrain360: val = np.remainder(val, 2 pi), of a float or of each
\* element of an array
constrain360(val) ==
    IF isscalar(val) THEN remainder(val, Fin(TwoPI))
    ELSE Array([j \in DOMAIN val.v |-> remainder(val.v[j], Fin(TwoPI))])

\* constrain180 with val >= pi as its test
constrain180_ge(val) ==
    LET w == constrain360(val)
    IN  IF FGe(w, Fin(PI)) THEN FSub(w, Fin(TwoPI)) ELSE w

\* Angle.constrain180: constrain360, then val -= 2 pi where val > pi, on a
\* float and on the elements of an array that are above pi
constrain180(val) ==
    LET w         == constrain360(val)
        lowered(x) == IF FGt(x, Fin(PI)) THEN FSub(x, Fin(TwoPI)) ELSE x
    IN  IF isscalar(w) THEN lowered(w)
        ELSE Array([j \in DOMAIN w.v |-> lowered(w.v[j])])

\* a constructor that stores the converted value as it is
Angle_init_unwrapped(rad) == rad

\* Angle.__init__ on a value already converted to radians
Angle_init(rad) == constrain180(rad)

\* Azimuth.__init__ without its trailing constrain360
Azimuth_init_no360(rad) == Angle_init(rad)

\* Azimuth.__init__: Angle.__init__, then constrain360
Azimuth_init(rad) == constrain360(Angle_init(rad))

\* self.__class__(rad): the stored value of a new instance of class cls
New(cls, rad) == IF cls = "Azimuth" THEN Azimuth_init(rad) ELSE Angle_init(rad)

(* ------------------------------------------------------------------ *)
(* Bounds and inputs                                                   *)
(* ------------------------------------------------------------------ *)

\* the number of instances alive at once, in the specification of all
\* state-changing operations and in those of the read-only operations
MaxObjs == 2

\* the number of instances alive at once, in the specifications of a few
\* operations each
MaxHeld == 3

\* the number of instances alive where each instance is only read
MaxRead == 1

Classes == {"Angle", "Azimuth"}

Formats == {"rad", "deg", "gon", "mil", "dms", "dm"}

\* a dictionary lookup that falls back on radians for an unknown key
Dispatch_default(val, format) ==
    IF format \in Formats
    THEN [kind |-> "ok", rad |-> Fin(Convert(val, format))]
    ELSE [kind |-> "ok", rad |-> Fin(rad2rad(val[1]))]

\* the constructor's lookup of format in its dictionary and the call of the
\* conversion found there; a key the dictionary does not hold raises KeyError
Dispatch(val, format) ==
    IF format \in Formats
    THEN [kind |-> "ok", rad |-> Fin(Convert(val, format))]
    ELSE [kind |-> "KeyError", rad |-> NaN]

\* a constructor call cls(val, format); a scalar val x is written <<x>>
Call(cls, format, val) == [cls |-> cls, format |-> format, val |-> val]

NoCall == Call("", "", << >>)

\* one or two raw values per format: radians in units of pi/PI, degrees in
\* units of 1/DegOne degree, whole gons, whole mils, (d, m, s) and (d, m)
RawInputs ==
    {<<"rad", <<-(PI \div 2)>>>>, <<"rad", <<PI + PI \div 2>>>>,
     <<"deg", <<-180 * DegOne>>>>, <<"deg", <<285 * DegOne>>>>,
     <<"gon", <<300>>>>, <<"mil", <<1600>>>>,
     <<"dms", <<-10, 30, 30>>>>, <<"dm", <<200, 30>>>>}

AllInputs == {Call(cls, r[1], r[2]) : cls \in Classes, r \in RawInputs}

\* the largest index of the grid of degree values
MaxGrid == 95

\* the grid's step of 3.75 degrees, a third of half a compass sector
GridStep == (15 * DegOne) \div 4

\* azimuths in degrees: the grid over [0, 360)
AzimuthDegrees == {k * GridStep : k \in 0..MaxGrid}

\* angles in degrees: the grid over [-180, 180), and the multiples of 22.5
\* degrees up to three turns either side of zero
AngleDegrees ==
    {k * GridStep - 180 * DegOne : k \in 0..MaxGrid}
        \cup {(k - MaxGrid \div 2) * 6 * GridStep : k \in 0..MaxGrid}

DegInputs ==
    {Call("Azimuth", "deg", <<x>>) : x \in AzimuthDegrees}
        \cup {Call("Angle", "deg", <<x>>) : x \in AngleDegrees}

\* plain numbers used as operands of operators (radian-valued floats)
Nums == {0, RadOne}

(* ------------------------------------------------------------------ *)
(* State                                                               *)
(* ------------------------------------------------------------------ *)

\* objs: the live instances, each [cls, val] with val the hidden __val;
\*       an instance is referred to by its index
\* ret:  the outcome of the last call
VARIABLES objs, ret

vars == <<objs, ret>>

ObjArg(i) == [tag |-> "obj", idx |-> i, num |-> Fin(0)]

NumArg(n) == [tag |-> "num", idx |-> 0, num |-> Fin(n)]

NoArg == [tag |-> "none", idx |-> 0, num |-> Fin(0)]

Refs == {ObjArg(i) : i \in DOMAIN objs}

Args == Refs \cup {NumArg(n) : n \in Nums}

IsObj(o) == o.tag = "obj"

ClsOf(o) == IF IsObj(o) THEN objs[o.idx].cls ELSE "number"

\* other.__float__(): the stored value of an instance, or the number itself
float(o) == IF IsObj(o) THEN objs[o.idx].val ELSE o.num

\* is_other_angle_type without its last test: an Azimuth takes an Angle for
\* an instance of its own class
is_other_angle_type_one_way(cls, other) ==
    IF ~IsObj(other) THEN FALSE
    ELSE IF ClsOf(other) = "Azimuth" /\ cls # "Azimuth" THEN TRUE
    ELSE FALSE

\* Angle.is_other_angle_type(self, other), self of class cls; the method
\* falls off its end (None, read as false) for two instances of one class
is_other_angle_type(cls, other) ==
    IF ~IsObj(other) THEN FALSE
    ELSE IF ClsOf(other) = "Azimuth" /\ cls # "Azimuth" THEN TRUE
    ELSE IF cls = "Azimuth" /\ ClsOf(other) # "Azimuth" THEN TRUE
    ELSE FALSE

\* the record of a call: op(lhs, rhs), or the constructor call `call`,
\* returned kind
\*   "none"  nothing            "ref"   the instance ref
\*   "bool"  the boolean b      "num"   the float val
\*   "pair"  (val, ref)         "name"  the string s
\*   "error" raised the exception s
Ret(op, lhs, rhs, kind) ==
    [op |-> op, lhs |-> lhs, rhs |-> rhs, kind |-> kind, call |-> NoCall,
     ref |-> 0, val |-> Fin(0), b |-> FALSE, s |-> ""]

Init ==
    /\ objs = << >>
    /\ ret = Ret("start", NoArg, NoArg, "none")

\* the exploration keeps at most cap instances alive: Room guards an
\* operation that always creates an instance, Fits one that may return self
Room(cap) == Len(objs) < cap

Fits(cap) == Len(objs') <= cap

\* cls(rad): a new instance built from a value in radians
Make(cls, rad) == [cls |-> cls, val |-> New(cls, rad)]

\* a method of instance i returns the new instance inst
ReturnNew(op, i, rhs, inst) ==
    /\ objs' = Append(objs, inst)
    /\ ret' = [Ret(op, ObjArg(i), rhs, "ref") EXCEPT !.ref = Len(objs) + 1]

\* a method of instance i returns self
ReturnSelf(op, i) ==
    /\ objs' = objs
    /\ ret' = [Ret(op, ObjArg(i), NoArg, "ref") EXCEPT !.ref = i]

(* ------------------------------------------------------------------ *)
(* Construction and in-place mutation                                  *)
(* ------------------------------------------------------------------ *)

\* Angle(val, format) and Azimuth(val, format), for the calls in Inputs
Construct(Inputs) ==
    \E c \in Inputs :
        LET found == Dispatch(c.val, c.format)
        IN  IF found.kind = "ok"
            THEN /\ objs' = Append(objs, Make(c.cls, found.rad))
                 /\ ret' = [Ret("init", NoArg, NoArg, "ref") EXCEPT
                               !.ref = Len(objs) + 1, !.call = c]
            ELSE /\ objs' = objs
                 /\ ret' = [Ret("init", NoArg, NoArg, "error") EXCEPT
                               !.s = found.kind, !.call = c]

\* i.constrain360()
Constrain360 ==
    \E i \in DOMAIN objs :
        /\ objs' = [objs EXCEPT ![i].val = constrain360(@)]
        /\ ret' = Ret("constrain360", ObjArg(i), NoArg, "none")

\* i.constrain180()
Constrain180 ==
    \E i \in DOMAIN objs :
        /\ objs' = [objs EXCEPT ![i].val = constrain180(@)]
        /\ ret' = Ret("constrain180", ObjArg(i), NoArg, "none")

(* ------------------------------------------------------------------ *)
(* Arithmetic operators: self.__class__(self.__val op other.__float__()) *)
(* ------------------------------------------------------------------ *)

\* the value the operator op computes from self.__val and other.__float__()
Raw(op, x, y) ==
    CASE op = "add"      -> FAdd(x, y)
      [] op = "sub"      -> FSub(x, y)
      [] op = "mul"      -> FMul(x, y)
      [] op = "truediv"  -> FDiv(x, y)
      [] op = "floordiv" -> FFloorDiv(x, y)
      [] op = "pow"      -> power(x, y)
      [] op = "mod"      -> remainder(x, y)

\* an operator whose result is of the right operand's class
Binary_right(op) ==
    \E i \in DOMAIN objs, other \in Args :
        /\ op = "pow" => PowDefined(objs[i].val, float(other))
        /\ ReturnNew(op, i, other,
                     Make(IF IsObj(other) THEN ClsOf(other) ELSE objs[i].cls,
                          Raw(op, objs[i].val, float(other))))

\* i op other, for the operators that return one instance
Binary(op) ==
    \E i \in DOMAIN objs, other \in Args :
        /\ op = "pow" => PowDefined(objs[i].val, float(other))
        /\ ReturnNew(op, i, other,
                     Make(objs[i].cls, Raw(op, objs[i].val, float(other))))

Add == Binary("add")

Sub == Binary("sub")

Mul == Binary("mul")

TrueDiv == Binary("truediv")

FloorDiv == Binary("floordiv")

Pow == Binary("pow")

Mod == Binary("mod")

\* divmod(i, other): the quotient as a number, the remainder as an instance
DivMod ==
    \E i \in DOMAIN objs, other \in Args :
        /\ objs' = Append(objs,
                Make(objs[i].cls, remainder(objs[i].val, float(other))))
        /\ ret' = [Ret("divmod", ObjArg(i), other, "pair") EXCEPT
                      !.ref = Len(objs) + 1,
                      !.val = FFloorDiv(objs[i].val, float(other))]

\* the value the reflected operator op computes from the number x on the
\* left and self.__val
ReflectedRaw(op, x, self) ==
    CASE op = "radd"      -> FAdd(self, x)
      [] op = "rsub"      -> FSub(x, self)
      [] op = "rmul"      -> FMul(self, x)
      [] op = "rtruediv"  -> FDiv(x, self)
      [] op = "rfloordiv" -> FFloorDiv(x, self)
      [] op = "rpow"      -> power(x, self)
      [] op = "rmod"      -> remainder(x, self)

ReflectedOps ==
    {"radd", "rsub", "rmul", "rtruediv", "rfloordiv", "rpow", "rmod"}

\* n op i for a plain number n
Reflected ==
    \E op \in ReflectedOps, i \in DOMAIN objs, n \in Nums :
        /\ op = "rpow" => PowDefined(Fin(n), objs[i].val)
        /\ ReturnNew(op, i, NumArg(n),
                     Make(objs[i].cls, ReflectedRaw(op, Fin(n), objs[i].val)))

\* divmod(n, i) for a plain number n
RDivMod ==
    \E i \in DOMAIN objs, n \in Nums :
        /\ objs' = Append(objs,
                Make(objs[i].cls, remainder(Fin(n), objs[i].val)))
        /\ ret' = [Ret("rdivmod", ObjArg(i), NumArg(n), "pair") EXCEPT
                      !.ref = Len(objs) + 1,
                      !.val = FFloorDiv(Fin(n), objs[i].val)]

\* abs(i)
AbsOp ==
    \E i \in DOMAIN objs :
        ReturnNew("abs", i, NoArg, Make(objs[i].cls, FAbs(objs[i].val)))

\* -i
Neg ==
    \E i \in DOMAIN objs :
        ReturnNew("neg", i, NoArg, Make(objs[i].cls, FNeg(objs[i].val)))

\* +i
Pos ==
    \E i \in DOMAIN objs :
        ReturnNew("pos", i, NoArg, Make(objs[i].cls, objs[i].val))

(* ------------------------------------------------------------------ *)
(* Derived angles and conversion between the two classes               *)
(* ------------------------------------------------------------------ *)

\* the elements of a stored value: of an array, or the one of a scalar
Elements(val) == IF isscalar(val) THEN <<val>> ELSE val.v

\* the floats a value holds
Values(val) == {Elements(val)[j] : j \in DOMAIN Elements(val)}

\* a function f of the floats of val, applied to a float or to each element
\* of an array
Each(f, val) ==
    IF isscalar(val) THEN f[val]
    ELSE Array([j \in DOMAIN val.v |-> f[val.v[j]]])

\* self.get_complement(): self.__class__(pi / 2 - val)
get_complement(self) ==
    LET from_quarter(x) == FSub(Fin(PI \div 2), x)
    IN  Make(self.cls,
            Each([x \in Values(self.val) |-> from_quarter(x)], self.val))

\* get_supplement with a quarter turn in the place of the half turn
get_supplement_quarter(self) == Make(self.cls, FSub(Fin(PI \div 2), self.val))

\* self.get_supplement(): self.__class__(pi - val)
get_supplement(self) ==
    LET from_half(x) == FSub(Fin(PI), x)
    IN  Make(self.cls,
            Each([x \in Values(self.val) |-> from_half(x)], self.val))

\* get_reverse with a quarter turn in the place of the half turn
get_reverse_quarter(self) ==
    LET plus_quarter(x) == FAdd(x, Fin(PI \div 2))
    IN  Make(self.cls,
            Each([x \in Values(self.val) |-> plus_quarter(x)], self.val))

\* self.get_reverse(): self.__class__(val + pi)
get_reverse(self) ==
    LET plus_half(x) == FAdd(x, Fin(PI))
    IN  Make(self.cls,
            Each([x \in Values(self.val) |-> plus_half(x)], self.val))

\* Angle.to_azimuth: Azimuth(self.get_complement().__float__())
Angle_to_azimuth(self) == Make("Azimuth", get_complement(self).val)

\* to_angle without the complement: the azimuth's value read as an angle
Azimuth_to_angle_plain(self) == Make("Angle", self.val)

\* Azimuth.to_angle: Angle(self.get_complement().__float__())
Azimuth_to_angle(self) == Make("Angle", get_complement(self).val)

\* self.to_other_angle_type(): to_azimuth of an Angle, to_angle of an Azimuth
to_other_angle_type(self) ==
    IF self.cls = "Azimuth" THEN Azimuth_to_angle(self)
                            ELSE Angle_to_azimuth(self)

\* i.get_complement()
GetComplement ==
    \E i \in DOMAIN objs :
        ReturnNew("get_complement", i, NoArg, get_complement(objs[i]))

\* i.get_supplement()
GetSupplement ==
    \E i \in DOMAIN objs :
        ReturnNew("get_supplement", i, NoArg, get_supplement(objs[i]))

\* i.get_reverse()
GetReverse ==
    \E i \in DOMAIN objs :
        ReturnNew("get_reverse", i, NoArg, get_reverse(objs[i]))

\* i.to_azimuth(): a new Azimuth from an Angle, self from an Azimuth
ToAzimuth ==
    \E i \in DOMAIN objs :
        IF objs[i].cls = "Azimuth"
        THEN ReturnSelf("to_azimuth", i)
        ELSE ReturnNew("to_azimuth", i, NoArg, Angle_to_azimuth(objs[i]))

\* i.to_angle(): self from an Angle, a new Angle from an Azimuth
ToAngle ==
    \E i \in DOMAIN objs :
        IF objs[i].cls = "Azimuth"
        THEN ReturnNew("to_angle", i, NoArg, Azimuth_to_angle(objs[i]))
        ELSE ReturnSelf("to_angle", i)

\* the truth value of a comparison on a stored value is asked for where an
\* if or a chained comparison tests it: an array of any length but one
\* raises ValueError there
Ambiguous(val) == ~isscalar(val) /\ Len(val.v) # 1

\* the float such a test is decided on: the value itself, or the one element
\* of an array
Single(val) == IF isscalar(val) THEN val ELSE val.v[1]

\* i.toDirectionEast(), defined on Azimuth
ToDirectionEast ==
    \E i \in DOMAIN objs :
        /\ objs[i].cls = "Azimuth"
        /\ IF Ambiguous(objs[i].val)
           THEN /\ objs' = objs
                /\ ret' = [Ret("toDirectionEast", ObjArg(i), NoArg, "error")
                              EXCEPT !.s = "ValueError"]
           ELSE IF FGt(Single(objs[i].val), Fin(PI))
           THEN ReturnNew("toDirectionEast", i, NoArg, get_complement(objs[i]))
           ELSE ReturnSelf("toDirectionEast", i)

(* ------------------------------------------------------------------ *)
(* Comparison operators                                                *)
(* ------------------------------------------------------------------ *)

\* the operand pairs of a comparison l op r: at least one is an instance
Pairs == {p \in Args \X Args : IsObj(p[1]) \/ IsObj(p[2])}

\* Python's dispatch of a comparison l op r: the right operand's reflected
\* method is the one that runs when the left operand is a plain number, and
\* when the right operand is an instance of a proper subclass of the left
\* operand's class (an Azimuth against an Angle)
Swapped(l, r) ==
    \/ ~IsObj(l)
    \/ IsObj(r) /\ ClsOf(l) = "Angle" /\ ClsOf(r) = "Azimuth"

\* Angle.__eq__(self, other), self the instance i
Angle_eq(i, other) ==
    IF is_other_angle_type(objs[i].cls, other)
    THEN isinf(objs[i].val)
    ELSE isclose(objs[i].val, float(other))

\* Angle.__ne__(self, other), self the instance i
Angle_ne(i, other) ==
    IF is_other_angle_type(objs[i].cls, other)
    THEN isfinite(objs[i].val)
    ELSE ~isclose(objs[i].val, float(other))

\* l == r
Eq ==
    \E p \in Pairs :
        LET l == p[1]
            r == p[2]
        IN  /\ objs' = objs
            /\ ret' = [Ret("eq", l, r, "bool") EXCEPT
                          !.b = IF Swapped(l, r) THEN Angle_eq(r.idx, l)
                                                 ELSE Angle_eq(l.idx, r)]

\* l != r
Ne ==
    \E p \in Pairs :
        LET l == p[1]
            r == p[2]
        IN  /\ objs' = objs
            /\ ret' = [Ret("ne", l, r, "bool") EXCEPT
                          !.b = IF Swapped(l, r) THEN Angle_ne(r.idx, l)
                                                 ELSE Angle_ne(l.idx, r)]

\* self.__val.__gt__(other.__float__()) and its three siblings
FCompare(op, x, y) ==
    CASE op = "gt" -> FGt(x, y)
      [] op = "ge" -> FGe(x, y)
      [] op = "lt" -> FLt(x, y)
      [] op = "le" -> FLe(x, y)

\* the reflection of an ordering operator: l < r is r > l
Mirror(op) ==
    CASE op = "gt" -> "lt"
      [] op = "ge" -> "le"
      [] op = "lt" -> "gt"
      [] op = "le" -> "ge"

\* Angle.__gt__ / __ge__ / __lt__ / __le__ (self, other), self the instance i:
\* the outcome of the call as a Ret record for the expression l op r
Angle_order(op, i, other, expr, l, r) ==
    IF is_other_angle_type(objs[i].cls, other)
    THEN [Ret(expr, l, r, "error") EXCEPT !.s = "TypeError"]
    ELSE [Ret(expr, l, r, "bool") EXCEPT
             !.b = FCompare(op, objs[i].val, float(other))]

\* l op r for op one of <, <=, >, >=
Order(op) ==
    \E p \in Pairs :
        LET l == p[1]
            r == p[2]
        IN  /\ objs' = objs
            /\ ret' = IF Swapped(l, r)
                      THEN Angle_order(Mirror(op), r.idx, l, op, l, r)
                      ELSE Angle_order(op, l.idx, r, op, l, r)

Gt == Order("gt")

Ge == Order("ge")

Lt == Order("lt")

Le == Order("le")

(* ------------------------------------------------------------------ *)
(* Length and indexing                                                 *)
(* ------------------------------------------------------------------ *)

\* the items an instance is indexed with: an integer, or a slice lo:hi
Index(n) == [tag |-> "index", lo |-> n, hi |-> n]

Slice(lo, hi) == [tag |-> "slice", lo |-> lo, hi |-> hi]

Items == {Index(0), Index(1), Slice(0, 1), Slice(0, 2), Slice(1, 3)}

\* len(i): the number of elements of an array; len of a float raises
\* TypeError, which __len__ raises again as TypeError
LenOp ==
    \E i \in DOMAIN objs :
        /\ objs' = objs
        /\ ret' = IF isscalar(objs[i].val)
                  THEN [Ret("len", ObjArg(i), NoArg, "error") EXCEPT
                           !.s = "TypeError"]
                  ELSE [Ret("len", ObjArg(i), NoArg, "num") EXCEPT
                           !.val = Fin(Len(objs[i].val.v))]

\* val.__getitem__(item) on the stored value: a numpy float indexed with an
\* integer or a slice raises IndexError; an array gives its element, IndexError
\* past its end, or the sub-array of a slice, which ends where the array ends
\* an indexing that gives the first element whatever the item
getitem_first(val, item) ==
    IF isscalar(val) THEN [kind |-> "IndexError", rad |-> NaN]
    ELSE [kind |-> "ok", rad |-> val.v[1]]

getitem(val, item) ==
    IF isscalar(val) THEN [kind |-> "IndexError", rad |-> NaN]
    ELSE IF item.tag = "index"
    THEN IF item.lo < Len(val.v)
         THEN [kind |-> "ok", rad |-> val.v[item.lo + 1]]
         ELSE [kind |-> "IndexError", rad |-> NaN]
    ELSE [kind |-> "ok",
          rad |-> Array(SubSeq(val.v, item.lo + 1,
                               IF item.hi < Len(val.v) THEN item.hi
                                                       ELSE Len(val.v)))]

\* i[item]: __getitem__ builds a new instance from the selected part and
\* turns a TypeError, and no other exception, into its own TypeError
GetItem ==
    \E i \in DOMAIN objs, item \in Items :
        LET got == getitem(objs[i].val, item)
        IN  IF got.kind = "ok"
            THEN /\ objs' = Append(objs, Make(objs[i].cls, got.rad))
                 /\ ret' = [Ret("getitem", ObjArg(i), NoArg, "ref") EXCEPT
                               !.ref = Len(objs) + 1,
                               !.call = Call("", item.tag, <<item.lo, item.hi>>)]
            ELSE /\ objs' = objs
                 /\ ret' = [Ret("getitem", ObjArg(i), NoArg, "error") EXCEPT
                               !.s = got.kind,
                               !.call = Call("", item.tag, <<item.lo, item.hi>>)]

(* ------------------------------------------------------------------ *)
(* Enclosed angle                                                      *)
(* ------------------------------------------------------------------ *)

\* the outcome of a computation: an instance, or a raised exception
Returned(inst) == [kind |-> "ref", s |-> "", inst |-> inst]

Raised(exc) == [kind |-> "error", s |-> exc, inst |-> Make("Angle", Fin(0))]

\* np.min([a1, a2], axis=0) on two instances: numpy holds what is neither a
\* number nor a sequence with a length as an object, and the minimum of
\* two objects keeps the first when a1 <= a2 and the second otherwise; the
\* comparison is the instances' own, which raises between the two classes
object_min(a1, a2) ==
    IF a1.cls # a2.cls THEN Raised("TypeError")
    ELSE IF FLe(a1.val, a2.val) THEN Returned(a1)
    ELSE Returned(a2)

\* cls(val) with val an instance instead of a number: __rad2rad returns
\* val * 1.0, an instance, and constrain360 stores np.remainder of it, the
\* instance val % 2 pi; np.isscalar of an instance is false, so constrain180
\* runs self.__val[self.__val > np.pi] -= 2 pi, an item assignment on an
\* instance, which the class does not define
init_from_instance(cls, val) == Raised("TypeError")

\* the enclosed angle computed from the radian values of the two instances
get_enclosed_angle_by_value(self, other) ==
    LET d1 == FAbs(New(self.cls, FSub(self.val, float(other))))
        d2 == FAbs(New(self.cls, FSub(float(other), self.val)))
    IN  Returned(Make(self.cls, IF FLe(d1, d2) THEN d1 ELSE d2))

\* get_enclosed_angle without its assertion: the differences with a number
\* are instances of the receiver's class
get_enclosed_angle_unasserted(self, other) ==
    LET cls    == IF IsObj(other) THEN ClsOf(other) ELSE self.cls
        delta1 == Make(self.cls, FSub(self.val, float(other)))
        delta2 == Make(cls, FSub(float(other), self.val))
        least  == object_min(Make(delta1.cls, FAbs(delta1.val)),
                             Make(delta2.cls, FAbs(delta2.val)))
    IN  IF least.kind = "error" THEN least
        ELSE init_from_instance(self.cls, least.inst)

\* self.get_enclosed_angle(other_angle): the assertion holds for every
\* instance (other_angle is never of another type than itself); the two
\* differences and their absolute values are instances
get_enclosed_angle(self, other) ==
    IF ~IsObj(other) THEN Raised("AssertionError")
    ELSE LET o      == objs[other.idx]
             delta1 == Make(self.cls, FSub(self.val, o.val))
             delta2 == Make(o.cls, FSub(o.val, self.val))
             least  == object_min(Make(delta1.cls, FAbs(delta1.val)),
                                  Make(delta2.cls, FAbs(delta2.val)))
         IN  IF least.kind = "error" THEN least
             ELSE init_from_instance(self.cls, least.inst)

\* i.get_enclosed_angle(other)
GetEnclosedAngle ==
    \E i \in DOMAIN objs, other \in Args :
        LET out == get_enclosed_angle(objs[i], other)
        IN  IF out.kind = "ref"
            THEN ReturnNew("get_enclosed_angle", i, other, out.inst)
            ELSE /\ objs' = objs
                 /\ ret' = [Ret("get_enclosed_angle", ObjArg(i), other,
                                "error") EXCEPT !.s = out.s]

(* ------------------------------------------------------------------ *)
(* Accessors and compass classification                                *)
(* ------------------------------------------------------------------ *)

\* i.rad(): the stored value itself
Rad ==
    \E i \in DOMAIN objs :
        /\ objs' = objs
        /\ ret' = [Ret("rad", ObjArg(i), NoArg, "num") EXCEPT
                      !.val = objs[i].val]

\* a deg() that writes the degrees over the stored value
Deg_in_place ==
    \E i \in DOMAIN objs :
        /\ objs' = [objs EXCEPT ![i].val =
                Each([x \in Values(@) |-> degrees(x)], @)]
        /\ ret' = [Ret("deg", ObjArg(i), NoArg, "num") EXCEPT
                      !.val =
                              Each([x \in Values(objs[i].val) |->
                                    degrees(x)], objs[i].val)]

\* i.deg()
Deg ==
    \E i \in DOMAIN objs :
        /\ objs' = objs
        /\ ret' = [Ret("deg", ObjArg(i), NoArg, "num") EXCEPT
                      !.val =
                              Each([x \in Values(objs[i].val) |->
                                    degrees(x)], objs[i].val)]

\* Angle.deground on a float: np.int64(np.round(degrees)), in whole degrees;
\* np.round takes a half to the even neighbour
Angle_deground(x) ==
    LET v    == degrees(x).v
        q    == v \div DegOne
        rest == v - q * DegOne
    IN  Fin(IF 2 * rest < DegOne THEN q
            ELSE IF 2 * rest > DegOne THEN q + 1
            ELSE IF q % 2 = 0 THEN q ELSE q + 1)

\* i.deground(), of finite values: the conversion of NaN to an integer is
\* not defined
Deground ==
    \E i \in DOMAIN objs :
        /\ \A j \in DOMAIN Elements(objs[i].val) : IsFin(Elements(objs[i].val)[j])
        /\ objs' = objs
        /\ ret' = [Ret("deground", ObjArg(i), NoArg, "num") EXCEPT
                      !.val =
                              Each([x \in Values(objs[i].val) |->
                                    Angle_deground(x)], objs[i].val)]

\* Angle.gon on a float: val * 200 / pi, in units of 1/DegOne gon
Angle_gon(x) == IF IsFin(x) THEN Fin((x.v * 200 * DegOne) \div PI) ELSE NaN

\* i.gon()
Gon ==
    \E i \in DOMAIN objs :
        /\ objs' = objs
        /\ ret' = [Ret("gon", ObjArg(i), NoArg, "num") EXCEPT
                      !.val =
                              Each([x \in Values(objs[i].val) |->
                                    Angle_gon(x)], objs[i].val)]

\* Angle.mil on a float: val * 3200 / pi, in units of 1/DegOne mil
Angle_mil(x) ==
    IF IsFin(x) THEN Fin((x.v * 32 * DegOne) \div (PI \div 100)) ELSE NaN

\* i.mil()
Mil ==
    \E i \in DOMAIN objs :
        /\ objs' = objs
        /\ ret' = [Ret("mil", ObjArg(i), NoArg, "num") EXCEPT
                      !.val =
                              Each([x \in Values(objs[i].val) |->
                                    Angle_mil(x)], objs[i].val)]

\* the unit of a minute of arc: the float 1.0 minute is MinOne
MinOne == DegOne \div 60

\* Angle.dm on a stored value: d = floor(degrees) in whole degrees, and
\* ms = |degrees * 100 - d * 100| * (60 / 100) in units of 1/MinOne minute;
\* of an array, the array of the d and the array of the ms
Angle_dm(val) ==
    LET one(x) ==
            LET angle == degrees(x)
                d     == angle.v \div DegOne
            IN  IF IsFin(x)
                THEN <<Fin(d), Fin(Abs(angle.v - d * DegOne))>>
                ELSE <<NaN, NaN>>
    IN  IF isscalar(val) THEN one(val)
        ELSE [r \in 1..2 |-> Array([j \in DOMAIN val.v |-> one(val.v[j])[r]])]

\* Angle.dms on a stored value: d and ms from dm, m = floor(ms) in whole
\* minutes, s = (ms - m) * 60 in whole seconds; of an array, the arrays of
\* the d, the m and the s
Angle_dms(val) ==
    LET one(x) ==
            LET pair == Angle_dm(x)
                m    == pair[2].v \div MinOne
            IN  IF IsFin(x)
                THEN <<pair[1], Fin(m),
                       Fin((pair[2].v - m * MinOne) * (60 \div MinOne))>>
                ELSE <<NaN, NaN, NaN>>
    IN  IF isscalar(val) THEN one(val)
        ELSE [r \in 1..3 |-> Array([j \in DOMAIN val.v |-> one(val.v[j])[r]])]

\* i.dm()
Dm ==
    \E i \in DOMAIN objs :
        /\ objs' = objs
        /\ ret' = [Ret("dm", ObjArg(i), NoArg, "tuple") EXCEPT
                      !.val = [k |-> "tuple", v |-> Angle_dm(objs[i].val)]]

\* i.dms()
Dms ==
    \E i \in DOMAIN objs :
        /\ objs' = objs
        /\ ret' = [Ret("dms", ObjArg(i), NoArg, "tuple") EXCEPT
                      !.val = [k |-> "tuple", v |-> Angle_dms(objs[i].val)]]

\* a threshold given in hundredths of a degree, as a degree-valued float
Hundredths(h) == Fin((h * DegOne) \div 100)

\* the chain of tests of Azimuth.get_cardinal_direction on degval
cardinal(degval) ==
    LET in(lo, x, hi)  == FLt(Hundredths(lo), x) /\ FLt(x, Hundredths(hi))
        inc(lo, x, hi) == FLe(Hundredths(lo), x) /\ FLe(x, Hundredths(hi))
    IN  IF in(1125, degval, 3375) THEN "NNE"
        ELSE IF inc(3375, degval, 5625) THEN "NE"
        ELSE IF in(5625, degval, 7875) THEN "ENE"
        ELSE IF inc(7875, degval, 10125) THEN "E"
        ELSE IF in(10125, degval, 12375) THEN "ESE"
        ELSE IF inc(12375, degval, 14625) THEN "SE"
        ELSE IF in(14625, degval, 16875) THEN "SSE"
        ELSE IF inc(16875, degval, 19125) THEN "S"
        ELSE IF in(19125, degval, 21375) THEN "SSW"
        ELSE IF inc(21375, degval, 23625) THEN "SW"
        ELSE IF in(23625, degval, 25875) THEN "WSW"
        ELSE IF inc(25875, degval, 29125) THEN "W"
        ELSE IF in(29125, degval, 30375) THEN "WNW"
        ELSE IF inc(30375, degval, 32625) THEN "NW"
        ELSE IF in(32625, degval, 34875) THEN "NNW"
        ELSE "N"

\* i.get_cardinal_direction(), defined on Azimuth: the chained comparisons
\* ask for the truth value of degval
GetCardinalDirection ==
    \E i \in DOMAIN objs :
        /\ objs[i].cls = "Azimuth"
        /\ objs' = objs
        /\ ret' = IF Ambiguous(objs[i].val)
                  THEN [Ret("get_cardinal_direction", ObjArg(i), NoArg, "error")
                           EXCEPT !.s = "ValueError"]
                  ELSE [Ret("get_cardinal_direction", ObjArg(i), NoArg, "name")
                           EXCEPT !.s = cardinal(degrees(Single(objs[i].val)))]

(* ------------------------------------------------------------------ *)
(* Arrays of angles and their mean direction                           *)
(* ------------------------------------------------------------------ *)

\* the unit of a sine or cosine: the float 1.0 is TrigOne
TrigOne == 10000

\* np.sin on whole degrees, by Bhaskara's rational approximation: odd,
\* and symmetric about a quarter turn, as the sine is
sind(d) ==
    LET m    == d % 360
        B(a) == (TrigOne * 4 * a * (180 - a)) \div (40500 - a * (180 - a))
    IN  IF m <= 180 THEN B(m) ELSE -B(m - 180)

cosd(d) == sind(d + 90)

\* np.sin and np.cos of a radian value, at a resolution of one degree
sin(x) == sind(x.v \div (PI \div 180))

cos(x) == cosd(x.v \div (PI \div 180))

\* the whole degree among the candidates whose direction lies closest to the
\* vector (x, y), the least one of several
Closest(y, x, candidates) ==
    LET score == [t \in candidates |-> x * cosd(t) + y * sind(t)]
    IN  CHOOSE t \in candidates :
            \A u \in candidates :
                score[t] > score[u] \/ (score[t] = score[u] /\ t <= u)

\* np.arctan2(y, x), at a resolution of one degree and in (-180, 180]: the
\* closest multiple of ten degrees first, then the closest degree around it;
\* arctan2(0, 0) is 0
arctan2(y, x) ==
    IF y = 0 /\ x = 0 THEN Fin(0)
    ELSE LET coarse == Closest(y, x, {10 * k : k \in -17..18})
             fine   == Closest(y, x, {((coarse + k + 179) % 360) - 179 :
                                        k \in -9..9})
         IN  Fin(fine * (PI \div 180))

RECURSIVE Sum(_)
Sum(xs) == IF xs = << >> THEN 0 ELSE Head(xs) + Sum(Tail(xs))

\* np.average(xs, weights=w) of a sequence of numbers; w = << >> is None
average(xs, w) ==
    IF w = << >> THEN Quot(Sum(xs), Len(xs))
    ELSE Quot(Sum([j \in DOMAIN xs |-> w[j] * xs[j]]), Sum(w))

\* cls(rads) for an array of radian values: both constraints act on each
\* element
MakeArray(cls, rads) ==
    [cls |-> cls,
     val |-> [k |-> "arr", v |-> [j \in DOMAIN rads |-> New(cls, rads[j])]]]

\* the mean taken of the radian values themselves
mean_arithmetic(self, weights) ==
    LET xs == Elements(self.val)
    IN  Make(self.cls, Fin(average([j \in DOMAIN xs |-> xs[j].v], weights)))

\* self.mean(weights): the direction of the average of the unit vectors
mean(self, weights) ==
    LET xs == Elements(self.val)
        sa == average([j \in DOMAIN xs |-> sin(xs[j])], weights)
        ca == average([j \in DOMAIN xs |-> cos(xs[j])], weights)
    IN  Make(self.cls, arctan2(sa, ca))

\* the weights a mean is asked with: none, and for an array equal weights
\* and a heavier first element
WeightsFor(val) ==
    IF isscalar(val) THEN {<< >>}
    ELSE {<< >>, [j \in DOMAIN val.v |-> 1],
          [j \in DOMAIN val.v |-> IF j = 1 THEN 3 ELSE 1]}

\* Angle(val, format) and Azimuth(val, format) for a list val of numbers
ConstructList(Inputs) ==
    \E c \in Inputs :
        LET found == [j \in DOMAIN c.val |-> Dispatch(<<c.val[j]>>, c.format)]
        IN  IF c.format \in Formats
            THEN /\ objs' = Append(objs,
                        MakeArray(c.cls, [j \in DOMAIN found |-> found[j].rad]))
                 /\ ret' = [Ret("init", NoArg, NoArg, "ref") EXCEPT
                               !.ref = Len(objs) + 1, !.call = c]
            ELSE /\ objs' = objs
                 /\ ret' = [Ret("init", NoArg, NoArg, "error") EXCEPT
                               !.s = "KeyError", !.call = c]

\* the conversion of each member of the sequence as a tuple of its own
DispatchTuples_each(val, format) ==
    LET width == IF format = "dms" THEN 3 ELSE 2
    IN  IF \E j \in DOMAIN val : Len(val[j]) # width
        THEN [kind |-> "ValueError", rads |-> << >>]
        ELSE [kind |-> "ok",
              rads |-> [j \in DOMAIN val |-> Fin(Convert(val[j], format))]]

\* the dictionary's dms2rad or dm2rad on the two-dimensional array np.array
\* makes of a list of sequences: d, m, s = dms (d, m = dm) unpacks the array
\* along its first axis, which raises ValueError unless the list has three
\* (two) members, and the arithmetic then runs along the members
DispatchTuples(val, format) ==
    LET width == IF format = "dms" THEN 3 ELSE 2
    IN  IF Len(val) # width THEN [kind |-> "ValueError", rads |-> << >>]
        ELSE [kind |-> "ok",
              rads |-> [j \in DOMAIN val[1] |->
                          Fin(Convert([r \in 1..width |-> val[r][j]], format))]]

\* Angle(val, format) and Azimuth(val, format) for a list val of sequences
\* and one of the tuple formats
ConstructTuples(Inputs) ==
    \E c \in Inputs :
        LET found == DispatchTuples(c.val, c.format)
        IN  /\ c.format \in {"dms", "dm"}
            /\ IF found.kind = "ok"
               THEN /\ objs' = Append(objs, MakeArray(c.cls, found.rads))
                    /\ ret' = [Ret("init", NoArg, NoArg, "ref") EXCEPT
                                  !.ref = Len(objs) + 1, !.call = c]
               ELSE /\ objs' = objs
                    /\ ret' = [Ret("init", NoArg, NoArg, "error") EXCEPT
                                  !.s = found.kind, !.call = c]

\* i.mean(weights)
Mean ==
    \E i \in DOMAIN objs :
        \E w \in WeightsFor(objs[i].val) :
            /\ objs' = Append(objs, mean(objs[i], w))
            /\ ret' = [Ret("mean", ObjArg(i), NoArg, "ref") EXCEPT
                          !.ref = Len(objs) + 1,
                          !.call = Call("", "weights", w)]

(* ------------------------------------------------------------------ *)
(* The caller's arrays                                                 *)
(* ------------------------------------------------------------------ *)

\* An array of the caller lives in objs as [cls |-> "ndarray", val, unit,
\* buf]: val its numbers, unit the format they are written in. An instance
\* built from an array is [cls, val, unit, buf], where buf is the index of
\* the array whose buffer __val names, and 0 when __val is an array of its
\* own.

\* the arrays a caller builds: degrees, radians, gons and mils
ArrayInputs ==
    {Call("ndarray", "deg", [j \in DOMAIN l |-> l[j] * DegOne]) :
        l \in {<<350, 10>>, <<170, 190>>, <<-90>>}}
      \cup {Call("ndarray", "rad", <<-(PI \div 2), PI + PI \div 2>>),
            Call("ndarray", "rad", <<3 * PI, 0>>),
            Call("ndarray", "gon", <<300, 100>>),
            Call("ndarray", "mil", <<1600, 4800>>)}

\* np.array(...) of the caller
NdArray(Inputs) ==
    \E c \in Inputs :
        /\ objs' = Append(objs,
                [cls |-> "ndarray", unit |-> c.format, buf |-> 0,
                 val |-> Array([j \in DOMAIN c.val |-> Fin(c.val[j])])])
        /\ ret' = [Ret("array", NoArg, NoArg, "ref") EXCEPT
                      !.ref = Len(objs) + 1, !.call = c]

\* self.__val = <a new array>: the name is bound to a buffer of its own
Rebind(mem, i, val) == [mem EXCEPT ![i].val = val, ![i].buf = 0]

\* self.__val[...] -= ...: the buffer __val names is written, and with it
\* the array that shares this buffer
WriteInPlace(mem, i, val) ==
    [k \in DOMAIN mem |->
        IF k = i \/ k = mem[i].buf THEN [mem[k] EXCEPT !.val = val]
        ELSE mem[k]]

\* constrain360 of instance i: np.remainder returns a new array
constrain360_array(mem, i) == Rebind(mem, i, constrain360(mem[i].val))

\* constrain180 of instance i: constrain360, then the elements above pi are
\* lowered in place
constrain180_array(mem, i) ==
    LET m == constrain360_array(mem, i)
    IN  WriteInPlace(m, i, constrain180(m[i].val))

\* the conversion of the array val to radians: angle * 1.0, np.radians,
\* angle * np.pi / 200.0 and angle * np.pi / 3200.0 each return a new array
ConvertArray(val, format) ==
    Array([j \in DOMAIN val.v |-> Fin(Convert(<<val.v[j].v>>, format))])

\* a constructor that keeps the caller's array as __val and converts and
\* constrains it in place
init_array_shared(mem, j, cls) ==
    LET i   == Len(mem) + 1
        rad == ConvertArray(mem[j].val, mem[j].unit)
        m1  == Append(mem, [cls |-> cls, unit |-> "rad", buf |-> j,
                            val |-> rad])
    IN  WriteInPlace(m1, i, New(cls, rad))

\* cls(mem[j].val, mem[j].unit): Angle.__init__ stores the converted array
\* and calls constrain180; Azimuth.__init__ then calls constrain360
init_array(mem, j, cls) ==
    LET i  == Len(mem) + 1
        m1 == Append(mem, [cls |-> cls, unit |-> "rad", buf |-> 0,
                           val |-> ConvertArray(mem[j].val, mem[j].unit)])
        m2 == constrain180_array(m1, i)
    IN  IF cls = "Azimuth" THEN constrain360_array(m2, i) ELSE m2

\* Angle(v, format) and Azimuth(v, format) for an array v of the caller
ConstructArray ==
    \E j \in DOMAIN objs :
        \E cls \in Classes :
            /\ objs[j].cls = "ndarray"
            /\ objs' = init_array(objs, j, cls)
            /\ ret' = [Ret("init", NoArg, ObjArg(j), "ref") EXCEPT
                          !.ref = Len(objs) + 1,
                          !.call = Call(cls, objs[j].unit, << >>)]

\* i.constrain360() of an instance built from an array
Constrain360Array ==
    \E i \in DOMAIN objs :
        /\ objs[i].cls \in Classes
        /\ objs' = constrain360_array(objs, i)
        /\ ret' = Ret("constrain360", ObjArg(i), NoArg, "none")

\* i.constrain180() of an instance built from an array
Constrain180Array ==
    \E i \in DOMAIN objs :
        /\ objs[i].cls \in Classes
        /\ objs' = constrain180_array(objs, i)
        /\ ret' = Ret("constrain180", ObjArg(i), NoArg, "none")

(* ------------------------------------------------------------------ *)
(* Specification                                                       *)
(* ------------------------------------------------------------------ *)

\* every operation that creates or changes an instance
Next ==
    \/ Room(MaxObjs) /\ Construct(AllInputs)
    \/ Constrain360
    \/ Constrain180
    \/ Room(MaxObjs) /\ Add
    \/ Room(MaxObjs) /\ Sub
    \/ Room(MaxObjs) /\ Mul
    \/ Room(MaxObjs) /\ TrueDiv
    \/ Room(MaxObjs) /\ FloorDiv
    \/ Room(MaxObjs) /\ Pow
    \/ Room(MaxObjs) /\ Mod
    \/ Room(MaxObjs) /\ DivMod
    \/ Room(MaxObjs) /\ Reflected
    \/ Room(MaxObjs) /\ RDivMod
    \/ Room(MaxObjs) /\ AbsOp
    \/ Room(MaxObjs) /\ Neg
    \/ Room(MaxObjs) /\ Pos
    \/ Room(MaxObjs) /\ GetComplement
    \/ Room(MaxObjs) /\ GetSupplement
    \/ Room(MaxObjs) /\ GetReverse
    \/ ToAzimuth /\ Fits(MaxObjs)
    \/ ToAngle /\ Fits(MaxObjs)
    \/ ToDirectionEast /\ Fits(MaxObjs)

Spec == Init /\ [][Next]_vars

\* constructor calls with a value in radians
RadInputs == {c \in AllInputs : c.format = "rad"}

\* instances, sums and quotients of them, and their comparison for equality
NextPair ==
    \/ Room(MaxHeld) /\ Construct(RadInputs)
    \/ Room(MaxHeld) /\ Add
    \/ Room(MaxHeld) /\ TrueDiv
    \/ Eq
    \/ Ne

SpecPair == Init /\ [][NextPair]_vars

\* instances, quotients of them, and their comparison for order
NextOrder ==
    \/ Room(MaxHeld) /\ Construct(RadInputs)
    \/ Room(MaxHeld) /\ TrueDiv
    \/ Gt
    \/ Ge
    \/ Lt
    \/ Le

SpecOrder == Init /\ [][NextOrder]_vars

\* constructor calls with a value in radians or in degrees
ConvInputs == {c \in AllInputs : c.format \in {"rad", "deg"}}

\* instances, their conversion to the other class and back, and the two
\* in-place operations
NextConvert ==
    \/ Room(MaxHeld) /\ Construct(ConvInputs)
    \/ ToAzimuth /\ Fits(MaxHeld)
    \/ ToAngle /\ Fits(MaxHeld)
    \/ Constrain360
    \/ Constrain180

SpecConvert == Init /\ [][NextConvert]_vars

\* lists of whole degrees, for arrays of angles
DegreeLists ==
    {<<350, 10>>, <<359, 1>>, <<10, 350>>, <<10, 30>>, <<170, 190>>,
     <<0, 90>>, <<45>>, <<270>>, <<350, 0, 10>>}

ListInputs ==
    {Call(cls, "deg", [j \in DOMAIN l |-> l[j] * DegOne]) :
        cls \in Classes, l \in DegreeLists}

\* arrays of angles and their mean directions
NextMean ==
    \/ Room(MaxObjs) /\ ConstructList(ListInputs)
    \/ Room(MaxObjs) /\ Mean

SpecMean == Init /\ [][NextMean]_vars

\* format tags the constructor's dictionary does not hold
BadFormats == {"grad", "DEG", "degrees"}

\* constructor calls with a value in radians and any format tag
TagInputs ==
    {Call(c.cls, f, c.val) : c \in RadInputs, f \in BadFormats \cup {"rad", "deg"}}

\* instances, failed constructions, lengths and items
NextScalar ==
    \/ Room(MaxObjs) /\ Construct(TagInputs)
    \/ Room(MaxObjs) /\ TrueDiv
    \/ LenOp
    \/ GetItem /\ Fits(MaxObjs)

SpecScalar == Init /\ [][NextScalar]_vars

\* instances, quotients of them, and the angle enclosed by two of them
NextEnclosed ==
    \/ Room(MaxHeld) /\ Construct(RadInputs)
    \/ Room(MaxHeld) /\ TrueDiv
    \/ GetEnclosedAngle /\ Fits(MaxHeld)

SpecEnclosed == Init /\ [][NextEnclosed]_vars

\* whole degrees, minutes and seconds of the tuple formats; the seconds are
\* multiples of the radian unit
DmsDegrees == {-170, -10, -1, 0, 1, 10, 180}

DmsMinutes == {0, 30, 59}

DmsSeconds == {0, 30}

DmsInputs ==
    {Call(cls, "dms", <<d, m, sec>>) :
        cls \in Classes, d \in DmsDegrees, m \in DmsMinutes, sec \in DmsSeconds}
        \cup {Call(cls, "dm", <<d, m>>) :
                 cls \in Classes, d \in DmsDegrees, m \in DmsMinutes}

\* an instance built from a (d, m, s) or (d, m) tuple, read back as degrees
\* and as tuples
NextDms ==
    \/ Room(MaxRead) /\ Construct(DmsInputs)
    \/ Deg
    \/ Dm
    \/ Dms

SpecDms == Init /\ [][NextDms]_vars

\* the (d, m, s) tuples that lists are made of
Tuples == {<<10, 30, 0>>, <<-10, 30, 30>>}

\* the longest list of tuples
MaxTuples == 3

\* the lists of one to MaxTuples tuples
TupleLists == UNION {[1..n -> Tuples] : n \in 1..MaxTuples}

\* a list of tuples turned into the list of its component sequences
Transpose(l) == [r \in DOMAIN l[1] |-> [j \in DOMAIN l |-> l[j][r]]]

\* a list of (d, m, s) tuples as a list of (d, m) tuples
WithoutSeconds(l) == [j \in DOMAIN l |-> SubSeq(l[j], 1, 2)]

\* constructor calls with a list of tuples, and with the list of the
\* component sequences of one
TupleInputs ==
    {Call(cls, "dms", v) :
        cls \in Classes,
        v \in TupleLists \cup {Transpose(l) : l \in TupleLists}}
        \cup {Call(cls, "dm", v) :
                 cls \in Classes,
                 v \in {WithoutSeconds(l) : l \in TupleLists}
                        \cup {Transpose(WithoutSeconds(l)) : l \in TupleLists}}

\* two instances at most are constructed, and the operators combine them,
\* numbers and their own results
NextArith ==
    \/ Room(MaxObjs) /\ Construct(RadInputs)
    \/ Room(MaxHeld) /\ Add
    \/ Room(MaxHeld) /\ Sub
    \/ Room(MaxHeld) /\ Mul
    \/ Room(MaxHeld) /\ TrueDiv
    \/ Room(MaxHeld) /\ FloorDiv
    \/ Room(MaxHeld) /\ Pow
    \/ Room(MaxHeld) /\ Mod
    \/ Room(MaxHeld) /\ DivMod
    \/ Room(MaxHeld) /\ Reflected
    \/ Room(MaxHeld) /\ RDivMod

SpecArith == Init /\ [][NextArith]_vars

\* instances of one value and of several, the two in-place operations and
\* the seven accessors
NextAccess ==
    \/ Room(MaxRead) /\ Construct(AllInputs)
    \/ Room(MaxRead) /\ ConstructList(ListInputs)
    \/ Constrain360
    \/ Constrain180
    \/ Rad
    \/ Deg
    \/ Deground
    \/ Gon
    \/ Mil
    \/ Dms
    \/ Dm

SpecAccess == Init /\ [][NextAccess]_vars

\* arrays of azimuths, their compass points and eastward directions
NextCompass ==
    \/ Room(MaxObjs) /\ ConstructList(ListInputs)
    \/ GetCardinalDirection
    \/ ToDirectionEast /\ Fits(MaxObjs)

SpecCompass == Init /\ [][NextCompass]_vars

\* arrays of angles, the two in-place operations, lengths and items
NextItems ==
    \/ Room(MaxObjs) /\ ConstructList(ListInputs)
    \/ Constrain360
    \/ Constrain180
    \/ LenOp
    \/ GetItem /\ Fits(MaxObjs)

SpecItems == Init /\ [][NextItems]_vars

\* instances built from lists of tuples, and their lengths
NextTuples ==
    \/ Room(MaxRead) /\ ConstructTuples(TupleInputs)
    \/ LenOp

SpecTuples == Init /\ [][NextTuples]_vars

\* instances, scalars and arrays, the two in-place operations, and the
\* complement, supplement and reverse of an instance
NextDerived ==
    \/ Room(MaxRead) /\ Construct(RadInputs)
    \/ Room(MaxRead) /\ ConstructList(ListInputs)
    \/ Constrain360
    \/ Constrain180
    \/ Room(MaxHeld) /\ GetComplement
    \/ Room(MaxHeld) /\ GetSupplement
    \/ Room(MaxHeld) /\ GetReverse

SpecDerived == Init /\ [][NextDerived]_vars

\* arrays of the caller, the instances built from them, and the two
\* in-place operations on these instances
NextInput ==
    \/ Room(MaxHeld) /\ NdArray(ArrayInputs)
    \/ Room(MaxHeld) /\ ConstructArray
    \/ Constrain360Array
    \/ Constrain180Array

SpecInput == Init /\ [][NextInput]_vars

\* an instance built from degrees, read back in degrees and as a compass
\* point
NextRead ==
    \/ Room(MaxRead) /\ Construct(DegInputs)
    \/ Deg
    \/ GetCardinalDirection

SpecRead == Init /\ [][NextRead]_vars

(* ------------------------------------------------------------------ *)
(* Properties                                                          *)
(* ------------------------------------------------------------------ *)

\* the half-open interval (-pi, pi]
InAngleDomain(x) == IsFin(x) /\ -PI < x.v /\ x.v <= PI

\* the half-open interval [0, 2 pi)
InAzimuthDomain(x) == IsFin(x) /\ 0 <= x.v /\ x.v < TwoPI

\* the last call returned an instance it has just constructed
Fresh ==
    /\ ret.kind \in {"ref", "pair"}
    /\ ret.op = "init" \/ ret.ref # ret.lhs.idx

\* the last call was an in-place operation op on instance i
Constrained(op, i) == ret.op = op /\ ret.lhs.idx = i

ArithOps ==
    {"add", "sub", "mul", "truediv", "floordiv", "pow", "mod", "divmod",
     "rdivmod", "abs", "neg", "pos"} \cup ReflectedOps

\* C1 as stated: the radian value held by every Angle instance lies in
\* (-pi, pi], whatever constructions and in-place mutations came before.
C1_AngleAlwaysIn180 ==
    \A i \in DOMAIN objs :
        objs[i].cls = "Angle" /\ IsFin(objs[i].val) => InAngleDomain(objs[i].val)

\* C1, amended: an Angle holds a value in (-pi, pi] when it has just been
\* constructed and when constrain180 has just been applied to it, a value in
\* [0, 2 pi) when constrain360 has just been applied to it, and at all times
\* a value in (-pi, 2 pi), or NaN where the value is not finite.
C1_AngleDomain ==
    \A i \in DOMAIN objs :
        objs[i].cls = "Angle" =>
            IF IsFin(objs[i].val)
            THEN /\ -PI < objs[i].val.v
                 /\ objs[i].val.v < TwoPI
                 /\ Fresh /\ ret.ref = i => InAngleDomain(objs[i].val)
                 /\ Constrained("constrain180", i) => InAngleDomain(objs[i].val)
                 /\ Constrained("constrain360", i) => InAzimuthDomain(objs[i].val)
            ELSE objs[i].val = NaN

\* C1 witness: constrain360 has just moved an Angle out of (-pi, pi].
C1_Witness ==
    \E i \in DOMAIN objs :
        /\ Constrained("constrain360", i)
        /\ objs[i].cls = "Angle"
        /\ IsFin(objs[i].val)
        /\ objs[i].val.v > PI

\* C2 as stated: after constrain360 and after constrain180 the value of an
\* Azimuth lies in [0, 2 pi).
C2_AzimuthConstrainIn360 ==
    \A i \in DOMAIN objs :
        /\ objs[i].cls = "Azimuth"
        /\ IsFin(objs[i].val)
        /\ Constrained("constrain360", i) \/ Constrained("constrain180", i)
        => InAzimuthDomain(objs[i].val)

\* C2, amended: on an Azimuth constrain360 leaves the value in [0, 2 pi), and
\* the inherited constrain180 applies the Angle domain: it leaves the value
\* in (-pi, pi]. A value that is not finite stays NaN.
C2_AzimuthConstrain ==
    \A i \in DOMAIN objs :
        objs[i].cls = "Azimuth" =>
            IF IsFin(objs[i].val)
            THEN /\ Constrained("constrain360", i) => InAzimuthDomain(objs[i].val)
                 /\ Constrained("constrain180", i) => InAngleDomain(objs[i].val)
            ELSE objs[i].val = NaN

\* C2 witness: constrain180 has just taken an Azimuth below zero.
C2_Witness ==
    \E i \in DOMAIN objs :
        /\ Constrained("constrain180", i)
        /\ objs[i].cls = "Azimuth"
        /\ IsFin(objs[i].val)
        /\ objs[i].val.v < 0

\* the last call was a constructor call or an arithmetic operator that
\* returned a new Azimuth
NewAzimuth ==
    /\ Fresh
    /\ ret.op \in ArithOps \cup {"init"}
    /\ objs[ret.ref].cls = "Azimuth"

\* the operands of the last arithmetic operator, as the floats it combined:
\* base and divisor name the left and the right one
LeftFloat ==
    IF ret.op \in ReflectedOps \cup {"rdivmod"}
    THEN ret.rhs.num ELSE objs[ret.lhs.idx].val

RightFloat ==
    IF ret.op \in ReflectedOps \cup {"rdivmod"}
    THEN objs[ret.lhs.idx].val
    ELSE IF ret.rhs.tag = "none" THEN Fin(RadOne) ELSE float(ret.rhs)

\* the cases in which floating-point arithmetic gives no finite number:
\* a NaN operand, a zero divisor, a power of zero or of a negative number
NotFiniteCase ==
    \/ ~IsFin(LeftFloat)
    \/ ~IsFin(RightFloat)
    \/ /\ ret.op \in {"truediv", "floordiv", "mod", "divmod",
                      "rtruediv", "rfloordiv", "rmod", "rdivmod"}
       /\ RightFloat.v = 0
    \/ /\ ret.op \in {"pow", "rpow"}
       /\ LeftFloat.v <= 0

\* C3 as stated: an Azimuth that has just been constructed, or returned by an
\* arithmetic operator, holds a value in [0, 2 pi), for every operand.
C3_NewAzimuthIn360 ==
    NewAzimuth => InAzimuthDomain(objs[ret.ref].val)

\* C3, amended: an Azimuth that has just been constructed, or returned by an
\* arithmetic operator, holds a value in [0, 2 pi) or NaN, and NaN only where
\* the operator's floating-point result is not finite.
C3_NewAzimuthDomain ==
    NewAzimuth =>
        \/ InAzimuthDomain(objs[ret.ref].val)
        \/ /\ objs[ret.ref].val = NaN
           /\ ret.op # "init"
           /\ NotFiniteCase

\* C3 witness: the negation of a positive Azimuth, wrapped back into
\* [0, 2 pi).
C3_Witness ==
    /\ NewAzimuth
    /\ ret.op = "neg"
    /\ objs[ret.lhs.idx].val.v > 0
    /\ InAzimuthDomain(objs[ret.ref].val)

\* C4 as stated: an in-place constrain operation applied to the instance a
\* method call has just returned does not change the value read through the
\* receiver of that call.
C4_ResultIndependent ==
    [][ /\ ret.kind \in {"ref", "pair"}
        /\ IsObj(ret.lhs)
        /\ ret'.op \in {"constrain360", "constrain180"}
        /\ ret'.lhs.idx = ret.ref
        => objs'[ret.lhs.idx].val = objs[ret.lhs.idx].val ]_vars

\* the last call was l op r on an Angle and an Azimuth, in either order
CrossType ==
    /\ IsObj(ret.lhs)
    /\ IsObj(ret.rhs)
    /\ ClsOf(ret.lhs) # ClsOf(ret.rhs)

\* C5 as stated: == between an Angle and an Azimuth is False and != is True,
\* whatever values the two hold.
C5_CrossTypeNeverEqual ==
    /\ ret.op = "eq" /\ CrossType => ret.b = FALSE
    /\ ret.op = "ne" /\ CrossType => ret.b = TRUE

\* C7 as stated: a binary operator applied to an Angle and an Azimuth (in
\* either order) returns the left operand's class built from the left value
\* and the value of the right operand converted to the left operand's type.
C7_RightOperandConverted ==
    ret.op \in {"add", "truediv"} /\ CrossType =>
        objs[ret.ref] =
            Make(objs[ret.lhs.idx].cls,
                 Raw(ret.op, objs[ret.lhs.idx].val,
                     to_other_angle_type(objs[ret.rhs.idx]).val))

OrderOps == {"gt", "ge", "lt", "le"}

\* C6: an ordering comparison l op r leaves every instance unchanged; between
\* an Angle and an Azimuth, in either order, it raises TypeError; between two
\* instances of one class, or an instance and a number, it returns the
\* comparison of the two radian values.
C6_Ordering ==
    [][ ret'.op \in OrderOps =>
          LET l == ret'.lhs
              r == ret'.rhs
          IN  /\ objs' = objs
              /\ IF IsObj(l) /\ IsObj(r) /\ ClsOf(l) # ClsOf(r)
                 THEN ret'.kind = "error" /\ ret'.s = "TypeError"
                 ELSE /\ ret'.kind = "bool"
                      /\ ret'.b = FCompare(ret'.op, float(l), float(r)) ]_vars

\* C6 witness: an Azimuth compared with an Angle on its right has raised
\* TypeError.
C6_Witness ==
    /\ ret.op = "lt"
    /\ CrossType
    /\ ClsOf(ret.lhs) = "Azimuth"
    /\ ret.kind = "error"

\* two calls in a row that make a round trip: the first converted an
\* instance to a new instance of the other class, the second converts that
\* result back
RoundTrip ==
    /\ ret.op \in {"to_azimuth", "to_angle"}
    /\ ret.ref # ret.lhs.idx
    /\ ret'.op \in {"to_azimuth", "to_angle"}
    /\ ret'.op # ret.op
    /\ ret'.lhs.idx = ret.ref

\* the domain of a class: (-pi, pi] for Angle, [0, 2 pi) for Azimuth
InDomain(cls, x) ==
    IF cls = "Azimuth" THEN InAzimuthDomain(x) ELSE InAngleDomain(x)

\* C8 as stated: a.to_azimuth().to_angle() holds the value of a, and
\* z.to_angle().to_azimuth() holds the value of z.
C8_RoundTripSameValue ==
    [][ RoundTrip => objs'[ret'.ref].val = objs[ret.lhs.idx].val ]_vars

\* C8, amended: the round trip returns an instance of the starting class
\* whose value lies in the domain of that class and differs from the
\* starting value by a whole number of turns; it is the starting value
\* whenever that value lies in the domain of its class.
C8_RoundTripCanonical ==
    [][ RoundTrip =>
          LET start == objs[ret.lhs.idx]
              back  == objs'[ret'.ref]
          IN  /\ back.cls = start.cls
              /\ InDomain(start.cls, back.val)
              /\ (back.val.v - start.val.v) % TwoPI = 0
              /\ InDomain(start.cls, start.val) => back.val = start.val ]_vars

\* C8 witness: an Angle left above pi by constrain360, its azimuth, and the
\* Angle converted back from that azimuth, one turn below the start.
C8_Witness ==
    /\ Len(objs) = 3
    /\ objs[1].cls = "Angle"
    /\ objs[1].val.v > PI
    /\ objs[2] = Angle_to_azimuth(objs[1])
    /\ ret.op = "to_angle"
    /\ ret.lhs.idx = 2
    /\ ret.ref = 3
    /\ objs[3].cls = "Angle"
    /\ objs[3].val.v = objs[1].val.v - TwoPI

\* x degrees reduced modulo 360 and remapped into (-180, 180]
RemapDeg(x) ==
    LET m == x % (360 * DegOne)
    IN  IF m > 180 * DegOne THEN m - 360 * DegOne ELSE m

CompassPoints ==
    <<"N", "NNE", "NE", "ENE", "E", "ESE", "SE", "SSE",
      "S", "SSW", "SW", "WSW", "W", "WNW", "NW", "NNW">>

\* the width of a compass sector, 22.5 degrees
SectorWidth == (45 * DegOne) \div 2

\* d degrees lies strictly inside a sector centred on a compass point
StrictlyInside(d) == (d + SectorWidth \div 2) % SectorWidth # 0

\* the compass point whose sector holds d degrees, 0 <= d < 360
SectorPoint(d) ==
    CompassPoints[(((d + SectorWidth \div 2) \div SectorWidth) % 16) + 1]

\* C10 as stated: for an azimuth strictly inside the 22.5 degree sector
\* centred on a compass point, get_cardinal_direction returns that point.
C10_SectorName ==
    ret.op = "get_cardinal_direction" =>
        LET d == degrees(objs[ret.lhs.idx].val).v
        IN  StrictlyInside(d) => ret.s = SectorPoint(d)

\* C11 as stated: for two instances of one class get_enclosed_angle returns
\* a value between 0 and pi, the same value for either order of the two.
C11_EnclosedSymmetricBounded ==
    ret.op = "get_enclosed_angle" /\ IsObj(ret.rhs) /\ ~CrossType =>
        /\ ret.kind = "ref"
        /\ IsFin(objs[ret.ref].val)
        /\ 0 <= objs[ret.ref].val.v
        /\ objs[ret.ref].val.v <= PI
        /\ get_enclosed_angle(objs[ret.rhs.idx], ret.lhs).kind = "ref"
        /\ get_enclosed_angle(objs[ret.rhs.idx], ret.lhs).inst.val
               = objs[ret.ref].val

\* C12: get_enclosed_angle between an Angle and an Azimuth, in either
\* order, raises an exception, returns no instance and changes none.
C12_EnclosedCrossTypeRejected ==
    [][ ret'.op = "get_enclosed_angle" /\ IsObj(ret'.lhs) /\ IsObj(ret'.rhs)
        /\ ClsOf(ret'.lhs) # ClsOf(ret'.rhs)
        => /\ ret'.kind = "error"
           /\ ret'.s # ""
           /\ objs' = objs ]_vars

\* C12 witness: an Angle has been asked for the angle it encloses with an
\* Azimuth, and the call has raised.
C12_Witness ==
    /\ ret.op = "get_enclosed_angle"
    /\ CrossType
    /\ ClsOf(ret.lhs) = "Angle"
    /\ ret.kind = "error"

\* C13 as stated: on a scalar instance, len and indexing or slicing with any
\* item raise TypeError, and no instance changes.
C13_ScalarLenIndexTypeError ==
    [][ ret'.op \in {"len", "getitem"} /\ isscalar(objs[ret'.lhs.idx].val)
        => /\ ret'.kind = "error"
           /\ ret'.s = "TypeError"
           /\ objs' = objs ]_vars

\* C14: a constructor call with a format tag other than rad, deg, gon, mil,
\* dms and dm raises an exception, and no instance is created or changed.
C14_UnknownFormatRejected ==
    [][ /\ ret'.op = "init"
        /\ ret'.call.format \notin {"rad", "deg", "gon", "mil", "dms", "dm"}
        => /\ ret'.kind = "error"
           /\ ret'.s # ""
           /\ objs' = objs ]_vars

\* C14 witness: the construction of an Azimuth with the tag "grad" has
\* raised while an instance exists.
C14_Witness ==
    /\ ret.op = "init"
    /\ ret.call.format = "grad"
    /\ ret.call.cls = "Azimuth"
    /\ ret.kind = "error"
    /\ Len(objs) = 1

\* the angle a derived-angle method is to return for the value v, before it
\* is reduced into the domain of the class
DerivedTarget(op, v) ==
    CASE op = "get_complement" -> PI \div 2 - v
      [] op = "get_supplement" -> PI - v
      [] op = "get_reverse"    -> v + PI

\* C15: get_complement, get_supplement and get_reverse return a new instance
\* of the receiver's class whose value is pi/2 - v, pi - v and v + pi, reduced
\* into the domain of that class (NaN for a receiver that holds NaN), and
\* leave the receiver and every other instance unchanged.
C15_DerivedAngles ==
    [][ ret'.op \in {"get_complement", "get_supplement", "get_reverse"} =>
          LET self   == objs[ret'.lhs.idx]
              result == objs'[ret'.ref]
          IN  /\ ret'.kind = "ref"
              /\ ret'.ref = Len(objs) + 1
              /\ SubSeq(objs', 1, Len(objs)) = objs
              /\ result.cls = self.cls
              /\ IF IsFin(self.val)
                 THEN /\ InDomain(self.cls, result.val)
                      /\ (result.val.v - DerivedTarget(ret'.op, self.val.v))
                             % TwoPI = 0
                 ELSE result.val = NaN ]_vars

\* C15 witness: the reverse of an Azimuth in the western half, wrapped back
\* below a full turn.
C15_Witness ==
    /\ ret.op = "get_reverse"
    /\ objs[ret.lhs.idx].cls = "Azimuth"
    /\ InAzimuthDomain(objs[ret.lhs.idx].val)
    /\ objs[ret.lhs.idx].val.v > PI
    /\ objs[ret.ref].val.v = objs[ret.lhs.idx].val.v - PI

\* C16 as stated: toDirectionEast of an Azimuth z in [0, 2 pi) returns an
\* Azimuth in [0, pi] that is z or z + pi modulo a full turn.
C16_EastFacing ==
    ret.op = "toDirectionEast" /\ InAzimuthDomain(objs[ret.lhs.idx].val) =>
        LET z == objs[ret.lhs.idx].val.v
            r == objs[ret.ref].val
        IN  /\ IsFin(r)
            /\ 0 <= r.v
            /\ r.v <= PI
            /\ r.v = z \/ r.v = (z + PI) % TwoPI

\* the radian value x lies less than a quarter turn from zero
NearZero(x) == x.v % TwoPI < PI \div 2 \/ x.v % TwoPI > TwoPI - PI \div 2

\* an array of two directions, mirror images of each other about zero
SymmetricPair(val) ==
    /\ ~isscalar(val)
    /\ Len(val.v) = 2
    /\ NearZero(val.v[1])
    /\ (val.v[1].v + val.v[2].v) % TwoPI = 0

\* C17: mean returns a new instance of the receiver's class with a value in
\* the domain of that class and leaves every instance unchanged; the mean of
\* two directions that mirror each other about zero (350 and 10 degrees,
\* 359 and 1), taken with no weights or with equal ones, is zero.
C17_MeanDirection ==
    [][ ret'.op = "mean" =>
          LET self   == objs[ret'.lhs.idx]
              result == objs'[ret'.ref]
              w      == ret'.call.val
          IN  /\ ret'.ref = Len(objs) + 1
              /\ SubSeq(objs', 1, Len(objs)) = objs
              /\ result.cls = self.cls
              /\ isscalar(result.val)
              /\ InDomain(self.cls, result.val)
              /\ SymmetricPair(self.val) /\ (w = << >> \/ w = <<1, 1>>)
                    => result.val = Fin(0) ]_vars

\* C17 witness: the mean of the Azimuths 350 and 10 degrees is zero.
C17_Witness ==
    /\ ret.op = "mean"
    /\ ret.call.val = << >>
    /\ objs[ret.lhs.idx].cls = "Azimuth"
    /\ objs[ret.lhs.idx].val.k = "arr"
    /\ objs[ret.lhs.idx].val.v = <<Fin(350 * (PI \div 180)), Fin(10 * (PI \div 180))>>
    /\ objs[ret.ref].val = Fin(0)

\* the one- or two-letter compass point next to the sector boundary at d
\* degrees: of the two sectors that meet there, the one of even rank
BoundaryPoint(d) ==
    LET below == (d - SectorWidth \div 2) \div SectorWidth
    IN  CompassPoints[(IF below % 2 = 0 THEN below ELSE (below + 1) % 16) + 1]

\* C18: get_cardinal_direction gives every sector boundary 11.25 + 22.5 k
\* degrees to the one- or two-letter point next to it; 33.75 and 56.25 give
\* NE, the values between 11.25 and 33.75 NNE, those between 56.25 and 78.75
\* ENE, and 0, 11.25 and 348.75 give N.
C18_BoundaryNames ==
    ret.op = "get_cardinal_direction" =>
        LET d == degrees(objs[ret.lhs.idx].val).v
        IN  /\ ~StrictlyInside(d) =>
                  /\ ret.s = BoundaryPoint(d)
                  /\ ret.s \in {"N", "NE", "E", "SE", "S", "SW", "W", "NW"}
            /\ d \in {(135 * DegOne) \div 4, (225 * DegOne) \div 4}
                  => ret.s = "NE"
            /\ (45 * DegOne) \div 4 < d /\ d < (135 * DegOne) \div 4
                  => ret.s = "NNE"
            /\ (225 * DegOne) \div 4 < d /\ d < (315 * DegOne) \div 4
                  => ret.s = "ENE"
            /\ d \in {0, (45 * DegOne) \div 4, (1395 * DegOne) \div 4}
                  => ret.s = "N"

\* C18 witness: the Azimuth of 33.75 degrees has been named NE.
C18_Witness ==
    /\ ret.op = "get_cardinal_direction"
    /\ degrees(objs[ret.lhs.idx].val).v = (135 * DegOne) \div 4
    /\ ret.s = "NE"

\* the radians of |d| + m/60 + s/3600 degrees carrying the sign of d, a
\* zero d counting as positive
SignedMagnitude(d, m, sec) ==
    (IF d < 0 THEN -1 ELSE 1)
        * (((Abs(d) * 3600 + m * 60 + sec) * (PI \div 180)) \div 3600)

\* C19: a (d, m, s) tuple with m, s >= 0 converts to the magnitude
\* |d| + m/60 + s/3600 degrees with the sign of d, also for d = 0, and a
\* (d, m) tuple converts as (d, m, 0): the instance built from it holds that
\* value, constrained to its domain.
C19_TupleMagnitude ==
    (ret.op = "init" /\ ret.kind = "ref" /\ ret.call.format \in {"dms", "dm"}) =>
        LET t == ret.call.val
            sec == IF ret.call.format = "dms" THEN t[3] ELSE 0
        IN  objs[ret.ref].val
                = New(ret.call.cls, Fin(SignedMagnitude(t[1], t[2], sec)))

\* C20: an Angle built from (d, m, s) with -180 < d <= 180, 0 <= m < 60 and
\* 0 <= s < 60 gives (d, m, s) back from dms() and (d, m + s/60) from dm().
C20_TupleRoundTrip ==
    [][(/\ ret.op = "init" /\ ret.kind = "ref"
        /\ ret.call.cls = "Angle" /\ ret.call.format = "dms"
        /\ ret'.op \in {"dms", "dm"}
        /\ ret'.lhs = ObjArg(ret.ref))
       => LET t == ret.call.val
          IN  (-180 < t[1] /\ t[1] <= 180) =>
                 IF ret'.op = "dms"
                 THEN ret'.val.v = <<Fin(t[1]), Fin(t[2]), Fin(t[3])>>
                 ELSE ret'.val.v
                        = <<Fin(t[1]), Fin(t[2] * MinOne + (t[3] * MinOne) \div 60)>>]_vars

\* the list is one of tuples of the format: triples for "dms", pairs for "dm"
ListOfTuples(c) ==
    \A j \in DOMAIN c.val : Len(c.val[j]) = (IF c.format = "dms" THEN 3 ELSE 2)

\* C21 as stated: a list of n tuples, n >= 1, in "dms" or "dm" format gives
\* an array-valued instance of length n whose i-th element is the conversion
\* of the i-th tuple.
C21_TupleListPerTuple ==
    (ret.op = "init" /\ ListOfTuples(ret.call)) =>
        /\ ret.kind = "ref"
        /\ objs[ret.ref].val
              = MakeArray(ret.call.cls,
                          [j \in DOMAIN ret.call.val |->
                              Fin(Convert(ret.call.val[j], ret.call.format))]).val

\* C21: a list in "dms" ("dm") format is read as the list of its three (two)
\* component sequences, all degrees, all minutes, all seconds, of a common
\* length n: the instance is an array of length n whose i-th element is the
\* conversion of the i-th degrees, minutes and seconds; a list of another
\* number of members raises ValueError and leaves no instance.
C21_TupleListPerComponent ==
    ret.op = "init" =>
        LET c     == ret.call
            width == IF c.format = "dms" THEN 3 ELSE 2
        IN  IF Len(c.val) = width
            THEN /\ ret.kind = "ref"
                 /\ ret.ref = Len(objs)
                 /\ objs[ret.ref].cls = c.cls
                 /\ objs[ret.ref].val.k = "arr"
                 /\ Len(objs[ret.ref].val.v) = Len(c.val[1])
                 /\ \A j \in DOMAIN c.val[1] :
                       objs[ret.ref].val.v[j]
                         = New(c.cls,
                               Fin(Convert([r \in 1..width |-> c.val[r][j]],
                                           c.format)))
            ELSE /\ ret.kind = "error"
                 /\ ret.s = "ValueError"

\* C21 witness: the component sequences of two tuples have given an array of
\* two elements.
C21_Witness ==
    /\ ret.op = "init"
    /\ ret.kind = "ref"
    /\ ret.call.format = "dms"
    /\ Len(ret.call.val) = 3
    /\ Len(ret.call.val[1]) = 2
    /\ Len(objs[ret.ref].val.v) = 2

\* the part of an array the item of the last call selects
Selected(val, call) ==
    IF call.format = "index" THEN val.v[call.val[1] + 1]
    ELSE Array([j \in 1..((IF call.val[2] < Len(val.v) THEN call.val[2]
                                                        ELSE Len(val.v))
                            - call.val[1]) |-> val.v[call.val[1] + j]])

\* the item of the last call selects a part of the array
SelectsPart(val, call) ==
    ~isscalar(val) /\ (call.format = "slice" \/ call.val[1] < Len(val.v))

\* C22 as stated: indexing or slicing an array-valued instance returns a new
\* instance of the receiver's class that holds exactly the selected elements
\* in their order, and leaves every instance as it was.
C22_ItemsExactly ==
    [][ (ret'.op = "getitem" /\ SelectsPart(objs[ret'.lhs.idx].val, ret'.call)) =>
          LET self == objs[ret'.lhs.idx]
          IN  /\ ret'.kind = "ref"
              /\ ret'.ref = Len(objs) + 1
              /\ SubSeq(objs', 1, Len(objs)) = objs
              /\ objs'[ret'.ref].cls = self.cls
              /\ objs'[ret'.ref].val = Selected(self.val, ret'.call) ]_vars

\* C22: indexing or slicing an array-valued instance returns a new instance
\* of the receiver's class that holds the selected elements in their order,
\* each reduced into the domain of the class (the elements themselves when
\* the receiver's elements are in that domain), and leaves every instance as
\* it was.
C22_ItemsReduced ==
    [][ (ret'.op = "getitem" /\ SelectsPart(objs[ret'.lhs.idx].val, ret'.call)) =>
          LET self == objs[ret'.lhs.idx]
              part == Selected(self.val, ret'.call)
          IN  /\ ret'.kind = "ref"
              /\ ret'.ref = Len(objs) + 1
              /\ SubSeq(objs', 1, Len(objs)) = objs
              /\ objs'[ret'.ref].cls = self.cls
              /\ objs'[ret'.ref].val = New(self.cls, part)
              /\ (\A j \in DOMAIN self.val.v : InDomain(self.cls, self.val.v[j]))
                    => objs'[ret'.ref].val = part ]_vars

\* C22 witness: a slice of two elements taken from an Azimuth of three.
C22_Witness ==
    /\ ret.op = "getitem"
    /\ ret.kind = "ref"
    /\ ret.call.format = "slice"
    /\ objs[ret.lhs.idx].cls = "Azimuth"
    /\ Len(objs[ret.lhs.idx].val.v) = 3
    /\ objs[ret.ref].cls = "Azimuth"
    /\ objs[ret.ref].val.k = "arr"
    /\ Len(objs[ret.ref].val.v) = 2
    /\ objs[ret.ref].val.v[2] = objs[ret.lhs.idx].val.v[ret.call.val[1] + 2]

\* the binary arithmetic operators, an instance on the left
BinaryOps ==
    {"add", "sub", "mul", "truediv", "floordiv", "pow", "mod", "divmod"}

\* C23 as stated: a binary arithmetic operator returns a new instance of the
\* class of its left operand, with a value in the domain of that class, and
\* leaves its operands as they were.
C23_BinaryInDomain ==
    [][ ret'.op \in BinaryOps =>
          LET self   == objs[ret'.lhs.idx]
              result == objs'[ret'.ref]
          IN  /\ ret'.kind \in {"ref", "pair"}
              /\ ret'.ref = Len(objs) + 1
              /\ SubSeq(objs', 1, Len(objs)) = objs
              /\ result.cls = self.cls
              /\ InDomain(self.cls, result.val) ]_vars

\* C23: a binary arithmetic operator returns a new instance (divmod as the
\* second member of a pair) of the class of its left operand, Angle for
\* Angle op Azimuth, Azimuth for Azimuth op Angle, the instance's class for
\* instance op number and for number op instance; the value is in the domain
\* of that class when the floating-point result is finite and NaN when it is
\* not; the operands are left as they were.
C23_BinaryResult ==
    [][ ret'.op \in BinaryOps \cup ReflectedOps \cup {"rdivmod"} =>
          LET self   == objs[ret'.lhs.idx]
              result == objs'[ret'.ref]
          IN  /\ ret'.kind = (IF ret'.op \in {"divmod", "rdivmod"}
                              THEN "pair" ELSE "ref")
              /\ ret'.ref = Len(objs) + 1
              /\ Len(objs') = Len(objs) + 1
              /\ SubSeq(objs', 1, Len(objs)) = objs
              /\ result.cls = self.cls
              /\ IF IsFin(result.val) THEN InDomain(self.cls, result.val)
                                      ELSE result.val = NaN ]_vars

\* C23 witness: an Angle minus an Azimuth has given a new Angle.
C23_Witness ==
    /\ ret.op = "sub"
    /\ ret.kind = "ref"
    /\ IsObj(ret.rhs)
    /\ objs[ret.lhs.idx].cls = "Angle"
    /\ objs[ret.rhs.idx].cls = "Azimuth"
    /\ objs[ret.ref].cls = "Angle"
    /\ ret.ref = Len(objs)
    /\ InAngleDomain(objs[ret.ref].val)

\* the operators of the division family, an instance on the left
DivisionOps == {"truediv", "floordiv", "mod", "divmod"}

\* C24: /, //, % and divmod of an instance by a zero-valued operand, a number
\* or an instance, raise nothing: they return a new instance of the left
\* operand's class that holds NaN (divmod with a quotient that is Inf or
\* NaN), and leave the operands as they were.
C24_DivisionByZero ==
    [][ (ret'.op \in DivisionOps /\ float(ret'.rhs) = Fin(0)) =>
          LET self   == objs[ret'.lhs.idx]
              result == objs'[ret'.ref]
          IN  /\ ret'.kind \in {"ref", "pair"}
              /\ ret'.ref = Len(objs) + 1
              /\ SubSeq(objs', 1, Len(objs)) = objs
              /\ result.cls = self.cls
              /\ result.val = NaN
              /\ ret'.op = "divmod" => ~IsFin(ret'.val) ]_vars

\* C24 witness: an Azimuth divided by an instance that holds zero.
C24_Witness ==
    /\ ret.op = "truediv"
    /\ ret.kind = "ref"
    /\ IsObj(ret.rhs)
    /\ objs[ret.rhs.idx].val = Fin(0)
    /\ objs[ret.lhs.idx].cls = "Azimuth"
    /\ IsFin(objs[ret.lhs.idx].val)
    /\ objs[ret.ref].val = NaN

\* C25 as stated: on an array-valued Azimuth get_cardinal_direction gives
\* one name for each element and toDirectionEast an Azimuth of the same
\* length, each element folded on its own; neither raises.
C25_ElementWise ==
    (/\ ret.op \in {"get_cardinal_direction", "toDirectionEast"}
     /\ ~isscalar(objs[ret.lhs.idx].val)) =>
        /\ ret.kind # "error"
        /\ ret.op = "get_cardinal_direction" => Len(objs[ret.lhs.idx].val.v) = 1
        /\ ret.op = "toDirectionEast" =>
              /\ ~isscalar(objs[ret.ref].val)
              /\ Len(objs[ret.ref].val.v) = Len(objs[ret.lhs.idx].val.v)

\* the exception a call of get_enclosed_angle with a plain number ends in
EnclosedWithNumberRaises(exc) ==
    (ret'.op = "get_enclosed_angle" /\ ~IsObj(ret'.rhs)) =>
        /\ ret'.kind = "error"
        /\ ret'.s = exc
        /\ objs' = objs

\* C26 as stated: get_enclosed_angle with a plain number for an operand fails
\* with a TypeError and leaves the receiver as it was.
C26_NumberTypeError == [][EnclosedWithNumberRaises("TypeError")]_vars

\* C26: get_enclosed_angle with a plain number for an operand fails its
\* assertion, with an AssertionError, returns nothing and leaves the receiver
\* as it was.
C26_NumberAssertionError == [][EnclosedWithNumberRaises("AssertionError")]_vars

\* C26 witness: the call with a number has failed and the receiver holds a
\* finite value.
C26_Witness ==
    /\ ret.op = "get_enclosed_angle"
    /\ ret.rhs.tag = "num"
    /\ ret.kind = "error"
    /\ ret.s = "AssertionError"
    /\ IsFin(objs[ret.lhs.idx].val)

\* the unit accessors
AccessorOps == {"rad", "deg", "deground", "gon", "mil", "dms", "dm"}

\* what the accessor op reads from the stored value val
Reading(op, val) ==
    CASE op = "rad"      -> val
      [] op = "deg"      -> Each([x \in Values(val) |-> degrees(x)], val)
      [] op = "deground" ->
              Each([x \in Values(val) |-> Angle_deground(x)], val)
      [] op = "gon"      -> Each([x \in Values(val) |-> Angle_gon(x)], val)
      [] op = "mil"      -> Each([x \in Values(val) |-> Angle_mil(x)], val)
      [] op = "dms"      -> [k |-> "tuple", v |-> Angle_dms(val)]
      [] op = "dm"       -> [k |-> "tuple", v |-> Angle_dm(val)]

\* C27: rad, deg, deground, gon, mil, dms and dm are pure reads: a call
\* leaves every stored value as it was and returns the reading of the value
\* the instance holds after the call, so that a repeated call returns the
\* same.
C27_PureReads ==
    [][ ret'.op \in AccessorOps =>
          /\ objs' = objs
          /\ ret'.kind \in {"num", "tuple"}
          /\ ret'.val = Reading(ret'.op, objs'[ret'.lhs.idx].val) ]_vars

\* C27 witness: deg has been read from an array that constrain360 had moved.
C27_Witness ==
    /\ ret.op = "deg"
    /\ objs[ret.lhs.idx].cls = "Angle"
    /\ ~isscalar(objs[ret.lhs.idx].val)
    /\ \E j \in DOMAIN objs[ret.lhs.idx].val.v :
          /\ FGt(objs[ret.lhs.idx].val.v[j], Fin(PI))
          /\ FGt(ret.val.v[j], Fin(180 * DegOne))

\* two stored floats are congruent modulo a full turn, or both NaN
Congruent(x, y) ==
    IF IsFin(x) /\ IsFin(y) THEN (x.v - y.v) % TwoPI = 0 ELSE x = y

\* the in-place operation named op, and the other one
InPlace(op, val) ==
    IF op = "constrain360" THEN constrain360(val) ELSE constrain180(val)

OtherInPlace(op, val) ==
    IF op = "constrain360" THEN constrain180(val) ELSE constrain360(val)

\* C28: constrain360 and constrain180 are idempotent, and in an interleaving
\* of them the value left depends on the last one only: it lies in that
\* operation's domain, is congruent modulo 2 pi to the value before, element
\* by element, is left alone by a second application, and is the same when
\* the other operation is applied in between; no other instance changes.
C28_ConstrainAlgebra ==
    [][ ret'.op \in {"constrain360", "constrain180"} =>
          LET i      == ret'.lhs.idx
              before == Elements(objs[i].val)
              after  == Elements(objs'[i].val)
          IN  /\ objs' = [objs EXCEPT ![i].val = objs'[i].val]
              /\ Len(after) = Len(before)
              /\ \A j \in DOMAIN before :
                    /\ Congruent(after[j], before[j])
                    /\ IsFin(after[j]) =>
                          IF ret'.op = "constrain360"
                          THEN InAzimuthDomain(after[j])
                          ELSE InAngleDomain(after[j])
              /\ InPlace(ret'.op, objs'[i].val) = objs'[i].val
              /\ InPlace(ret'.op, OtherInPlace(ret'.op, objs[i].val))
                    = objs'[i].val
              /\ InPlace(ret'.op, OtherInPlace(ret'.op, objs'[i].val))
                    = objs'[i].val ]_vars

\* C28 witness: constrain180 has brought an array that constrain360 had
\* moved above pi back below zero.
C28_Witness ==
    /\ ret.op = "constrain180"
    /\ ~isscalar(objs[ret.lhs.idx].val)
    /\ objs[ret.lhs.idx].cls = "Angle"
    /\ \E j \in DOMAIN objs[ret.lhs.idx].val.v :
          FLt(objs[ret.lhs.idx].val.v[j], Fin(0))

\* the methods that derive an angle from an angle
Derivations == {"get_complement", "get_supplement", "get_reverse"}

\* two calls in a row of one of these methods, the second on the result of
\* the first
Twice ==
    /\ ret.op \in Derivations
    /\ ret'.op = ret.op
    /\ ret'.lhs.idx = ret.ref

\* C29 as stated: x.complement().complement(), x.supplement().supplement()
\* and x.reverse().reverse() each hold the value of x.
C29_TwiceSameValue ==
    [][ Twice => objs'[ret'.ref].val = objs[ret.lhs.idx].val ]_vars

\* C29, amended: the second of the two calls returns an instance of the
\* class of x whose elements lie in the domain of that class and differ
\* from those of x by a whole number of turns (NaN stays NaN); it holds the
\* value of x whenever that value lies in the domain of its class.
C29_TwiceCanonical ==
    [][ Twice =>
          LET start == objs[ret.lhs.idx]
              back  == objs'[ret'.ref]
              from  == Elements(start.val)
              to    == Elements(back.val)
          IN  /\ back.cls = start.cls
              /\ isscalar(back.val) = isscalar(start.val)
              /\ Len(to) = Len(from)
              /\ \A j \in DOMAIN from :
                    /\ Congruent(to[j], from[j])
                    /\ IsFin(to[j]) => InDomain(start.cls, to[j])
              /\ (\A j \in DOMAIN from :
                     IsFin(from[j]) => InDomain(start.cls, from[j]))
                    => back.val = start.val ]_vars

\* C29 witness: an Angle left above pi by constrain360, its reverse, and the
\* reverse of that, one turn below the start.
C29_Witness ==
    /\ Len(objs) = 3
    /\ objs[1].cls = "Angle"
    /\ isscalar(objs[1].val)
    /\ FGt(objs[1].val, Fin(PI))
    /\ objs[2] = get_reverse(objs[1])
    /\ ret.op = "get_reverse"
    /\ ret.lhs.idx = 2
    /\ ret.ref = 3
    /\ objs[3].val = FSub(objs[1].val, Fin(TwoPI))

\* the arrays of the caller are what they were before the step
ArraysKept ==
    \A k \in DOMAIN objs : objs[k].cls = "ndarray" => objs'[k] = objs[k]

\* C30: a construction from an array v of the caller leaves v, and every
\* other array and instance, as it was, and returns an instance with an
\* array of its own that holds the constrained conversion of v; a later
\* constrain360 or constrain180 of an instance changes no array of the
\* caller, and no instance ever names the buffer of one.
C30_InputKept ==
    [][ /\ ret'.op = "init" =>
              /\ \A k \in DOMAIN objs : objs'[k] = objs[k]
              /\ Len(objs') = Len(objs) + 1
              /\ objs'[ret'.ref].buf = 0
              /\ objs'[ret'.ref].val
                    = New(ret'.call.cls,
                          ConvertArray(objs[ret'.rhs.idx].val,
                                       objs[ret'.rhs.idx].unit))
        /\ ret'.op \in {"constrain360", "constrain180"} =>
              /\ ArraysKept
              /\ objs'[ret'.lhs.idx].buf = 0
              /\ \A k \in DOMAIN objs :
                    k # ret'.lhs.idx => objs'[k] = objs[k] ]_vars

\* C30 witness: an array of radians with an element above pi, the Azimuth
\* built from it, constrained to (-pi, pi] afterwards and holding other
\* numbers than the array, which is as the caller made it.
C30_Witness ==
    /\ Len(objs) = 2
    /\ objs[1].cls = "ndarray"
    /\ objs[1].val = Array(<<Fin(-(PI \div 2)), Fin(PI + PI \div 2)>>)
    /\ objs[2].cls = "Azimuth"
    /\ ret.op = "constrain180"
    /\ ret.lhs.idx = 2
    /\ objs[2].val = Array(<<Fin(-(PI \div 2)), Fin(-(PI \div 2))>>)

====
